---- MODULE Spec2Model ----
(***************************************************************************)
(* gpiolcd: a driver for an HD44780 character LCD on eight GPIO lines.     *)
(* The module models src/gpiolcd.c: the configuration checks of main, the  *)
(* start-up in hd44780_prepare, the input interpreter do_char, the command *)
(* state machine hd44780_command / hd44780_putc and the signal transmitter *)
(* hd44780_output / hd44780_output4 / hd44780_strobe / hd44780_set_pin.    *)
(***************************************************************************)
EXTENDS Integers, Sequences, FiniteSets

VARIABLES
    pc,          \* position of main: "main", "usage", "prepare", "err", "input",
                 \* "abort" (assert failed), "corrupt" (access outside an
                 \* object: what the program does from there on is
                 \* undefined, and the run is followed no further), "addr"
                 \* (hd44780_calc_addr returned), "sent" (hd44780_output
                 \* returned)
    hd_ifwidth,  \* struct hd44780_state
    hd_lines,
    hd_cols,
    hd_blink,
    hd_cursor,
    hd_font,
    hd_bl_on,
    hd_col,
    hd_row,
    pins,
    hd_gpio,     \* hd_gpio.lines: for each slot the pin role whose handle it holds, -1 if none
    esc,         \* do_char's static flag
    last,        \* the call being served: its name, its argument, and the cursor,
                 \* esc and the level of E at entry
    addr,        \* the value hd44780_calc_addr returned last
    wire,        \* the gpiod_line_set_value calls of the last call, in order: <<pin, on>>
    sent,        \* the bytes handed to hd44780_output / hd44780_output4 by the
                 \* last call: <<strobes completed, register type, byte>>
    errs,        \* the number of line sets of the last call that failed
    e_line,      \* the level E was last driven to
    fed,         \* the number of bytes of Script read so far
    dev_ac,      \* the controller's address counter
    dev_n,       \* the controller's line mode (N bit of function set), 0 or 1
    dev_wr,      \* the controller's DDRAM updates caused by the last call
    dev_dl,      \* the controller's interface width, 8 or 4
    dev_hi,      \* the upper nibble the controller holds, <<>> if none
    dev_on,      \* the controller's display switch, 0 or 1
    dev_ph       \* <<dev_dl, Len(dev_hi)>> after each strobe of the last call

config == <<hd_ifwidth, hd_lines, hd_cols, hd_blink, hd_cursor, hd_font, hd_bl_on>>

device == <<dev_ac, dev_n, dev_wr, dev_dl, dev_hi, dev_on, dev_ph>>

vars == <<pc, config, hd_col, hd_row, pins, hd_gpio, esc, last, addr, wire, sent,
          errs, e_line, fed, device>>

-----------------------------------------------------------------------------
(* Bounds of the model.                                                    *)

\* Runs are explored on every geometry with at most MaxCols columns (and on
\* the three geometries that fill the DDRAM, see FullGeometries).
MaxCols == 9

-----------------------------------------------------------------------------
(* Program constants.                                                      *)

CMD_RESET == 0
CMD_BKSP == 1
CMD_CLR == 2
CMD_NL == 3
CMD_CR == 4
CMD_HOME == 5
CMD_TAB == 6
CMD_FLASH == 7

HD_COMMAND == 0
HD_DATA == 1

HD_PIN_DAT0 == 0
HD_PIN_RS == 8
HD_PIN_RW == 9
HD_PIN_E == 10
HD_PIN_BL == 11
HD_PIN_COUNT == 12

HD_CMD_CLEAR == 1
HD_CMD_HOME == 2
HD_CMD_ENTRYMODE == 4
HD_ENTRY_INCR == 2
HD_CMD_DISPCTRL == 8
HD_DISP_ON == 4
HD_CURSOR_ON == 2
HD_BLINK_ON == 1
HD_CMD_MOVE == 16
HD_MOVE_CURSOR == 0
HD_MOVE_LEFT == 0
HD_CMD_SETMODE == 32
HD_MODE_8BIT_IF == 16
HD_MODE_2LINES == 8
HD_MODE_LARGE_FONT == 4
HD_CMD_SET_ADDR == 128
HD_LINE1_DRAM_OFFSET == 64

\* the range of int, the type of hd_lines and hd_cols
INT_MAX == 2147483647
INT_MIN == (-INT_MAX) - 1

-----------------------------------------------------------------------------
(* C arithmetic.                                                           *)

\* ((1 << i) & data) != 0
Bit(i, data) == ((data \div (2 ^ i)) % 2) = 1

\* a | b bit by bit, on operands of `width' bits
RECURSIVE BitOrFrom(_, _, _, _)
BitOrFrom(i, width, a, b) ==
    IF i = width THEN 0
    ELSE (IF Bit(i, a) \/ Bit(i, b) THEN 2 ^ i ELSE 0) + BitOrFrom(i + 1, width, a, b)

\* a | b on 8-bit operands: the two nibbles, each looked up in the table of
\* the bitwise or of 4-bit operands
NibbleOr == [a \in 0..15, b \in 0..15 |-> BitOrFrom(0, 4, a, b)]
BitOr(a, b) == 16 * NibbleOr[a \div 16, b \div 16] + NibbleOr[a % 16, b % 16]

\* conversion of an int to uint8_t
U8(x) == x % 256

\* a * b in 32-bit two's complement (the product's low 32 bits, read as signed),
\* for 0 <= a < 2^15, computed on 16-bit halves
Mul32Wrap(a, b) ==
    LET r   == IF b < 0 THEN (b + INT_MAX) + 1 ELSE b
        hi  == (IF b < 0 THEN 32768 ELSE 0) + r \div 65536
        lo  == r % 65536
        plo == a * lo
        rlo == plo % 65536
        rhi == (a * hi + plo \div 65536) % 65536
    IN  IF rhi >= 32768 THEN (rhi - 65536) * 65536 + rlo ELSE rhi * 65536 + rlo

\* whether a * b leaves the range of int, for a > 0
MulOverflows(a, b) == b > INT_MAX \div a \/ b < -(INT_MAX \div a) - 1

-----------------------------------------------------------------------------
(* The controller at the other end of the bus: what the nibbles strobed in *)
(* do to its interface mode, its display switch, its address counter and   *)
(* its DDRAM.  A controller is a record: dl the interface width (8 or 4),  *)
(* hi the upper nibble waiting for its lower half (<<>> when none), n the  *)
(* line mode, on the display switch, ac the address counter, wr the DDRAM  *)
(* updates and ph the <<dl, Len(hi)>> after each strobe of the call being  *)
(* served.  A DDRAM update is <<address, byte>>; <<-1, 32>> is "every cell *)
(* becomes a space".                                                       *)

\* the address after a data write (entry mode: increment, no shift)
DevInc(ac, n) ==
    IF n = 0 THEN (ac + 1) % 80
    ELSE IF ac = 39 THEN 64 ELSE IF ac = 103 THEN 0 ELSE (ac + 1) % 128

\* the address after a cursor move to the left
DevDec(ac, n) ==
    IF n = 0 THEN (ac + 79) % 80
    ELSE IF ac = 64 THEN 39 ELSE IF ac = 0 THEN 103 ELSE (ac + 127) % 128

\* one byte <<register, byte>> taken in: a data write or an instruction
DevStep(d, item) ==
    LET b == item[2] IN
    IF item[1] = HD_DATA
    THEN [d EXCEPT !.wr = Append(@, <<d.ac, b>>), !.ac = DevInc(d.ac, d.n)]
    ELSE IF b >= HD_CMD_SET_ADDR THEN [d EXCEPT !.ac = b - HD_CMD_SET_ADDR]
    ELSE IF b >= 64 THEN d
    ELSE IF b >= HD_CMD_SETMODE
         THEN [d EXCEPT !.dl = IF Bit(4, b) THEN 8 ELSE 4,
                        !.n = IF Bit(3, b) THEN 1 ELSE 0]
    ELSE IF b >= HD_CMD_MOVE
         THEN IF Bit(3, b) THEN d
              ELSE [d EXCEPT !.ac = IF Bit(2, b) THEN DevInc(d.ac, d.n)
                                    ELSE DevDec(d.ac, d.n)]
    ELSE IF b >= HD_CMD_DISPCTRL THEN [d EXCEPT !.on = IF Bit(2, b) THEN 1 ELSE 0]
    ELSE IF b >= HD_CMD_ENTRYMODE THEN d
    ELSE IF b >= HD_CMD_HOME THEN [d EXCEPT !.ac = 0]
    ELSE IF b = HD_CMD_CLEAR THEN [d EXCEPT !.ac = 0, !.wr = Append(@, <<-1, 32>>)]
    ELSE d

\* One pulse on E with the register select rs and the nibble nib on the four
\* data lines.  On an 8-bit interface the pulse is a whole byte, whose lower
\* four bits (the pins the driver is not wired to) read 0; on a 4-bit
\* interface two pulses make a byte, upper nibble first.
DevStrobe(d, rs, nib) ==
    LET e == IF d.dl = 8 THEN DevStep(d, <<rs, 16 * nib>>)
             ELSE IF d.hi = <<>> THEN [d EXCEPT !.hi = <<nib>>]
             ELSE DevStep([d EXCEPT !.hi = <<>>], <<rs, 16 * d.hi[1] + nib>>)
    IN  [e EXCEPT !.ph = Append(@, <<e.dl, Len(e.hi)>>)]

-----------------------------------------------------------------------------
(* The signal transmitter.  Each function is modelled by the line sets it  *)
(* performs, in order: a sequence of <<pin, on>>.                          *)

\* gpiod_line_set_value(lines[pins[pin]], on); an error is only logged.  The
\* pins set in the runs explored (RS, RW, E, BL, D0..D3) all have a line.
hd44780_set_pin(pin, on) == << <<pin, on>> >>

hd44780_strobe == hd44780_set_pin(HD_PIN_E, TRUE) \o hd44780_set_pin(HD_PIN_E, FALSE)

\* for (i = 0; i < 4; i++) set_pin(HD_PIN_DAT0 + i, ((1 << (i + shift)) & data) != 0)
RECURSIVE SetNibble(_, _, _)
SetNibble(i, shift, data) ==
    IF i = 4 THEN <<>>
    ELSE hd44780_set_pin(HD_PIN_DAT0 + i, Bit(i + shift, data))
            \o SetNibble(i + 1, shift, data)

\* RW low, RS by register type, upper nibble, strobe
UpperNibble(type, data) ==
    hd44780_set_pin(HD_PIN_RW, FALSE)
        \o hd44780_set_pin(HD_PIN_RS, type # HD_COMMAND)
        \o SetNibble(0, 4, data)
        \o hd44780_strobe

\* a variant of output_sets that sends the lower nibble first
output_sets_LowFirst(type, data) ==
    hd44780_set_pin(HD_PIN_RW, FALSE)
        \o hd44780_set_pin(HD_PIN_RS, type # HD_COMMAND)
        \o SetNibble(0, 0, data) \o hd44780_strobe
        \o SetNibble(0, 4, data) \o hd44780_strobe

output_sets(type, data) ==
    UpperNibble(type, data) \o SetNibble(0, 0, data) \o hd44780_strobe

output4_sets(type, data) == UpperNibble(type, data)

\* The line sets of every transmission, computed once: output_sets and
\* output4_sets tabulated over the register types and the bytes.
OutputTable ==
    [t \in {HD_COMMAND, HD_DATA}, d \in 0..255 |-> output_sets(t, d)]
Output4Table ==
    [t \in {HD_COMMAND, HD_DATA}, d \in 0..255 |-> output4_sets(t, d)]

(* A call in progress is a record m: the cursor (col, row), calc_addr's    *)
(* last result, do_char's esc flag, the line sets (wire) and the bytes     *)
(* (sent, as debug level 3 logs them) it has produced so far, and the      *)
(* controller (dev), which takes each transmission as it is strobed in.    *)

hd44780_output(m, type, data) ==
    [m EXCEPT !.sent = Append(@, <<2, type, U8(data)>>),
              !.at = Append(@, Len(m.wire)),
              !.wire = @ \o OutputTable[type, U8(data)],
              !.dev = DevStrobe(DevStrobe(@, type, U8(data) \div 16),
                                type, U8(data) % 16)]

hd44780_output4(m, type, data) ==
    [m EXCEPT !.sent = Append(@, <<1, type, U8(data)>>),
              !.at = Append(@, Len(m.wire)),
              !.wire = @ \o Output4Table[type, U8(data)],
              !.dev = DevStrobe(@, type, U8(data) \div 16)]

-----------------------------------------------------------------------------
(* The display state machine.                                              *)

\* a variant of hd44780_calc_addr without the offsets of the rows
calc_addr_NoRowOffset(row, col) == U8(col)

hd44780_calc_addr(row, col) ==
    LET a0 == U8(col)
        a1 == IF row = 1 \/ row = 3 THEN U8(a0 + HD_LINE1_DRAM_OFFSET) ELSE a0
    IN  IF row = 2 \/ row = 3 THEN U8(a1 + U8(hd_cols)) ELSE a1

\* Faulty variants of hd44780_putc: one that does not look at the right edge
\* (C1_CursorInRange fails on it), one that still writes at the edge
\* (C4_Putc fails on it).
putc_NoEdge(m, c) == [hd44780_output(m, HD_DATA, c) EXCEPT !.col = @ + 1]
putc_EdgeWrite(m, c) ==
    IF m.col = hd_cols THEN hd44780_output(m, HD_DATA, c)
    ELSE [hd44780_output(m, HD_DATA, c) EXCEPT !.col = @ + 1]

hd44780_putc(m, c) ==
    IF m.col = hd_cols THEN m
    ELSE [hd44780_output(m, HD_DATA, c) EXCEPT !.col = @ + 1]

\* val = HD_CMD_DISPCTRL | HD_DISP_ON [| HD_CURSOR_ON] [| HD_BLINK_ON]
DispOnVal ==
    LET v1 == BitOr(HD_CMD_DISPCTRL, HD_DISP_ON)
        v2 == IF hd_cursor # 0 THEN BitOr(v1, HD_CURSOR_ON) ELSE v1
    IN  IF hd_blink # 0 THEN BitOr(v2, HD_BLINK_ON) ELSE v2

\* val = HD_CMD_SETMODE [| HD_MODE_8BIT_IF] [| HD_MODE_2LINES] [| HD_MODE_LARGE_FONT]
SetModeVal ==
    LET v1 == IF hd_ifwidth = 8 THEN BitOr(HD_CMD_SETMODE, HD_MODE_8BIT_IF)
              ELSE HD_CMD_SETMODE
        v2 == IF hd_lines # 1 THEN BitOr(v1, HD_MODE_2LINES) ELSE v1
    IN  IF hd_font # 0 THEN BitOr(v2, HD_MODE_LARGE_FONT) ELSE v2

cmd_CLR(m) ==
    [hd44780_output(m, HD_COMMAND, HD_CMD_CLEAR) EXCEPT !.col = 0, !.row = 0]

\* Faulty variants of CMD_RESET: one that does not end with the clear
\* command (C14_Reset fails on it), one that repeats the wake-up write only
\* twice (C18_Resync fails on it).
reset_NoClear(m) ==
    LET w  == BitOr(HD_CMD_SETMODE, HD_MODE_8BIT_IF)
        m1 == hd44780_output4(m, HD_COMMAND, w)
        m2 == hd44780_output4(m1, HD_COMMAND, w)
        m3 == hd44780_output4(m2, HD_COMMAND, w)
        m4 == IF hd_ifwidth = 4 THEN hd44780_output4(m3, HD_COMMAND, SetModeVal) ELSE m3
        m5 == hd44780_output(m4, HD_COMMAND, SetModeVal)
        m6 == hd44780_output(m5, HD_COMMAND, HD_CMD_DISPCTRL)
        m7 == hd44780_output(m6, HD_COMMAND, DispOnVal)
        m8 == hd44780_output(m7, HD_COMMAND, BitOr(HD_CMD_ENTRYMODE, HD_ENTRY_INCR))
    IN  [m8 EXCEPT !.col = 0, !.row = 0]
reset_TwoWakes(m) ==
    LET w  == BitOr(HD_CMD_SETMODE, HD_MODE_8BIT_IF)
        m1 == hd44780_output4(m, HD_COMMAND, w)
        m2 == hd44780_output4(m1, HD_COMMAND, w)
        m4 == IF hd_ifwidth = 4 THEN hd44780_output4(m2, HD_COMMAND, SetModeVal) ELSE m2
        m5 == hd44780_output(m4, HD_COMMAND, SetModeVal)
        m6 == hd44780_output(m5, HD_COMMAND, HD_CMD_DISPCTRL)
        m7 == hd44780_output(m6, HD_COMMAND, DispOnVal)
        m8 == hd44780_output(m7, HD_COMMAND, BitOr(HD_CMD_ENTRYMODE, HD_ENTRY_INCR))
    IN  cmd_CLR(m8)

cmd_RESET(m) ==
    LET w  == BitOr(HD_CMD_SETMODE, HD_MODE_8BIT_IF)
        m1 == hd44780_output4(m, HD_COMMAND, w)
        m2 == hd44780_output4(m1, HD_COMMAND, w)
        m3 == hd44780_output4(m2, HD_COMMAND, w)
        m4 == IF hd_ifwidth = 4 THEN hd44780_output4(m3, HD_COMMAND, SetModeVal) ELSE m3
        m5 == hd44780_output(m4, HD_COMMAND, SetModeVal)
        m6 == hd44780_output(m5, HD_COMMAND, HD_CMD_DISPCTRL)
        m7 == hd44780_output(m6, HD_COMMAND, DispOnVal)
        m8 == hd44780_output(m7, HD_COMMAND, BitOr(HD_CMD_ENTRYMODE, HD_ENTRY_INCR))
    IN  cmd_CLR(m8)

\* for (i = 0; i < 2; i++) { display off; display on }
RECURSIVE FlashLoop(_, _)
FlashLoop(m, i) ==
    IF i < 2
    THEN FlashLoop(hd44780_output(hd44780_output(m, HD_COMMAND, HD_CMD_DISPCTRL),
                                  HD_COMMAND, DispOnVal), i + 1)
    ELSE m

\* a variant of CMD_FLASH that ends with the display off
flash_EndsOff(m) ==
    hd44780_output(FlashLoop(m, 1), HD_COMMAND, HD_CMD_DISPCTRL)

cmd_FLASH(m) == FlashLoop(m, 0)

MoveLeftVal == BitOr(BitOr(HD_CMD_MOVE, HD_MOVE_CURSOR), HD_MOVE_LEFT)

\* Faulty variants of CMD_BKSP: one that moves back without overwriting
\* (C6_Backspace fails on it), one that stays silent at column 0
\* (C7_BackspaceAtHome fails on it).
bksp_NoErase(m) ==
    IF m.col > 0
    THEN [hd44780_output(m, HD_COMMAND, MoveLeftVal) EXCEPT !.col = @ - 1]
    ELSE cmd_FLASH(m)
bksp_Silent(m) ==
    IF m.col > 0
    THEN LET m1 == hd44780_output(m, HD_COMMAND, MoveLeftVal)
             m2 == [m1 EXCEPT !.col = @ - 1]
             m3 == hd44780_putc(m2, 32)
             m4 == hd44780_output(m3, HD_COMMAND, MoveLeftVal)
         IN  [m4 EXCEPT !.col = @ - 1]
    ELSE m

cmd_BKSP(m) ==
    IF m.col > 0
    THEN LET m1 == hd44780_output(m, HD_COMMAND, MoveLeftVal)
             m2 == [m1 EXCEPT !.col = @ - 1]
             m3 == hd44780_putc(m2, 32)
             m4 == hd44780_output(m3, HD_COMMAND, MoveLeftVal)
         IN  [m4 EXCEPT !.col = @ - 1]
    ELSE cmd_FLASH(m)

\* n successive calls putc(' '), evaluated by halving; at the right edge
\* every further call returns at once
RECURSIVE PutSpaces(_, _)
PutSpaces(m, n) ==
    IF n <= 0 \/ m.col = hd_cols THEN m
    ELSE IF n = 1 THEN hd44780_putc(m, 32)
    ELSE LET h == PutSpaces(m, n \div 2) IN PutSpaces(h, n - (n \div 2))

\* while (hd_col < hd_cols) putc(' '): each turn adds one to hd_col, so the
\* loop makes hd_cols - hd_col calls
FillLine(m) == PutSpaces(m, hd_cols - m.col)

\* val = calc_addr(state); output(HD_COMMAND, HD_CMD_SET_ADDR | val)
SetAddr(m) ==
    LET a == hd44780_calc_addr(m.row, m.col)
    IN  hd44780_output([m EXCEPT !.addr = a], HD_COMMAND, BitOr(HD_CMD_SET_ADDR, a))

\* A faulty variant of CMD_NL that does not fill the rest of the row
\* (C3_Newline fails on it).
nl_NoPad(m) ==
    IF m.row < hd_lines - 1
    THEN SetAddr([m EXCEPT !.row = @ + 1, !.col = 0])
    ELSE m

cmd_NL(m) ==
    LET m1 == FillLine(m)
    IN  IF m1.row < hd_lines - 1
        THEN SetAddr([m1 EXCEPT !.row = @ + 1, !.col = 0])
        ELSE m1

cmd_CR(m) == SetAddr([m EXCEPT !.col = 0])

\* A faulty variant of CMD_HOME that goes home by clearing the display
\* (C2_ClearHome fails on it).
home_ByClear(m) == cmd_CLR(m)

cmd_HOME(m) ==
    [hd44780_output(m, HD_COMMAND, HD_CMD_HOME) EXCEPT !.col = 0, !.row = 0]

\* A faulty variant of CMD_TAB that always writes eight spaces
\* (C5_Tab fails on it).
tab_Fixed(m) == PutSpaces(m, 8)

cmd_TAB(m) ==
    LET i == 8 - (m.col % 8)
    IN  \* while (i-- > 0) putc(' ')
        PutSpaces(m, IF m.col + i > hd_cols THEN hd_cols - m.col ELSE i)

hd44780_command(m, cmd) ==
    CASE cmd = CMD_RESET -> cmd_RESET(m)
      [] cmd = CMD_CLR   -> cmd_CLR(m)
      [] cmd = CMD_BKSP  -> cmd_BKSP(m)
      [] cmd = CMD_NL    -> cmd_NL(m)
      [] cmd = CMD_CR    -> cmd_CR(m)
      [] cmd = CMD_HOME  -> cmd_HOME(m)
      [] cmd = CMD_TAB   -> cmd_TAB(m)
      [] cmd = CMD_FLASH -> cmd_FLASH(m)
      [] OTHER           -> m

-----------------------------------------------------------------------------
(* The input interpreter.  ch is the byte read, 0..255.                    *)

isascii(ch) == ch < 128
isprint(ch) == 32 <= ch /\ ch <= 126

\* A faulty variant of do_char that ends the escape on 'R' and 'H' only
\* (C10_Escape fails on it).
do_char_EscKept(m, ch) ==
    IF m.esc # 0
    THEN IF ch = 82 THEN [hd44780_command(m, CMD_RESET) EXCEPT !.esc = 0]
         ELSE IF ch = 72 THEN [hd44780_command(m, CMD_HOME) EXCEPT !.esc = 0]
         ELSE m
    ELSE IF ch = 27 THEN [m EXCEPT !.esc = 1]
    ELSE CASE ch = 10 -> hd44780_command(m, CMD_NL)
           [] ch = 13 -> hd44780_command(m, CMD_CR)
           [] ch = 9  -> hd44780_command(m, CMD_TAB)
           [] ch = 7  -> hd44780_command(m, CMD_FLASH)
           [] ch = 8  -> hd44780_command(m, CMD_BKSP)
           [] ch = 12 -> hd44780_command(m, CMD_CLR)
           [] OTHER   -> IF isascii(ch) /\ isprint(ch) THEN hd44780_putc(m, ch) ELSE m

do_char(m, ch) ==
    IF m.esc # 0
    THEN LET m1 == IF ch = 82 THEN hd44780_command(m, CMD_RESET)
                   ELSE IF ch = 72 THEN hd44780_command(m, CMD_HOME)
                   ELSE m
         IN  [m1 EXCEPT !.esc = 0]
    ELSE IF ch = 27 THEN [m EXCEPT !.esc = 1]
    ELSE CASE ch = 10 -> hd44780_command(m, CMD_NL)
           [] ch = 13 -> hd44780_command(m, CMD_CR)
           [] ch = 9  -> hd44780_command(m, CMD_TAB)
           [] ch = 7  -> hd44780_command(m, CMD_FLASH)
           [] ch = 8  -> hd44780_command(m, CMD_BKSP)
           [] ch = 12 -> hd44780_command(m, CMD_CLR)
           [] OTHER   -> IF isascii(ch) /\ isprint(ch) THEN hd44780_putc(m, ch) ELSE m

-----------------------------------------------------------------------------
(* main.                                                                   *)

\* the pin table main builds before getopt
DefaultPins ==
    [i \in 0..(HD_PIN_COUNT - 1) |->
        IF i = HD_PIN_RS THEN 0
        ELSE IF i = HD_PIN_RW THEN 1
        ELSE IF i = HD_PIN_E THEN 2
        ELSE IF i = HD_PIN_BL THEN 3
        ELSE IF i = HD_PIN_DAT0 THEN 4
        ELSE -1]

\* a + k in int for 0 < k.  A sum above INT_MAX is undefined; the builds
\* store the sum's low 32 bits read as signed.
Add32Wrap(a, k) ==
    IF a > INT_MAX - k THEN ((a - INT_MAX) + (k - 1)) + INT_MIN ELSE a + k

\* for (i = 1; i < hd_ifwidth; i++) pins[HD_PIN_DAT0 + i] = pins[HD_PIN_DAT0] + i
DataPins(p, w) ==
    [i \in 0..(HD_PIN_COUNT - 1) |->
        IF HD_PIN_DAT0 < i /\ i < HD_PIN_DAT0 + w
        THEN Add32Wrap(p[HD_PIN_DAT0], i - HD_PIN_DAT0)
        ELSE p[i]]

\* The outcomes of "hd_lines * hd_cols > 80" for hd_lines in {1, 2, 4}.  A
\* product that leaves the range of int is undefined: a build that multiplies
\* in 32 bits compares the wrapped product, a build that reasons on the
\* unbounded product finds it above 80.
TooManyCells(l, c) ==
    IF MulOverflows(l, c) THEN {Mul32Wrap(l, c) > 80, TRUE} ELSE {l * c > 80}

\* the geometry checks of main; big is the outcome of the product test
GeometryRejected(l, c, big) ==
    \/ (l # 1 /\ l # 2 /\ l # 4)
    \/ c <= 0
    \/ big

\* The pin numbers the options -R -W -E -L -D leave in pins[]; a number is
\* what strtol read, -1 included.
PinOptions(o) ==
    [DefaultPins EXCEPT ![HD_PIN_RS] = o.R, ![HD_PIN_RW] = o.W, ![HD_PIN_E] = o.E,
                        ![HD_PIN_BL] = o.L, ![HD_PIN_DAT0] = o.D]

NoPinOption == [R |-> 0, W |-> 1, E |-> 2, L |-> 3, D |-> 4]

\* the pin options runs are explored on: none, and one option giving -1,
\* another negative number, a number some other role has, or a number that
\* puts the last data pin at 12
PinArgs ==
    {NoPinOption,
     [NoPinOption EXCEPT !.R = -1], [NoPinOption EXCEPT !.D = -1],
     [NoPinOption EXCEPT !.L = -1], [NoPinOption EXCEPT !.E = -1],
     [NoPinOption EXCEPT !.E = -5],
     [NoPinOption EXCEPT !.R = 1], [NoPinOption EXCEPT !.D = 9],
     [NoPinOption EXCEPT !.L = 2], [NoPinOption EXCEPT !.R = 2],
     [NoPinOption EXCEPT !.D = INT_MAX]}

\* The geometries runs are explored on: every pair up to MaxCols columns,
\* the default 2 x 16, the three geometries that fill the DDRAM, and the
\* pairs just above them.
FullGeometries == {<<1, 80>>, <<2, 40>>, <<4, 20>>}
GeometryArgs ==
    ((0..5) \X ((-1)..MaxCols)) \cup FullGeometries
        \cup {<<2, 16>>, <<1, 81>>, <<2, 41>>, <<4, 21>>}

\* <<blink, cursor, font, backlight on>> as the options -B -C -F -O leave them
FlagArgs == {<<0, 0, 0, 1>>, <<1, 0, 0, 0>>, <<0, 1, 0, 1>>, <<1, 1, 1, 1>>}

\* The option sets <<lines, columns, flags, pins>> runs start from: every
\* geometry with the default flags and pins, every flag set on the two-column
\* geometries, every pin option on 2 x 2 with the backlight on and off.
ConfigArgs ==
    {<<g[1], g[2], <<0, 0, 0, 1>>, NoPinOption>> : g \in GeometryArgs}
        \cup {<<l, 2, f, NoPinOption>> : l \in {1, 2, 4}, f \in FlagArgs}
        \cup {<<2, 2, <<0, 0, 0, b>>, p>> : b \in {0, 1}, p \in PinArgs}

\* The states the controller may be in when the program starts: on either
\* interface width, on a 4-bit interface between bytes or holding the upper
\* nibble of a byte cut short.
DeviceArgs ==
    {[ac |-> 0, n |-> 0, dl |-> 8, hi |-> <<>>, on |-> 0],
     [ac |-> 39, n |-> 1, dl |-> 4, hi |-> <<>>, on |-> 1],
     [ac |-> 0, n |-> 1, dl |-> 4, hi |-> <<3>>, on |-> 1],
     [ac |-> 39, n |-> 0, dl |-> 4, hi |-> <<0>>, on |-> 0],
     [ac |-> 0, n |-> 1, dl |-> 4, hi |-> <<8>>, on |-> 1]}

\* the bytes fed to do_char
InputChars == {7, 8, 9, 10, 12, 13, 27, 32, 65, 72, 82, 127, 200}

\* which line sets of a call fail: FailPatterns names the patterns explored,
\* Fails(f, i) tells whether the i-th gpiod_line_set_value of the call fails
FailPatterns == {"none", "odd"}
Fails(f, i) == f = "odd" /\ i % 2 = 1

NoCall == [op |-> "none", ch |-> 0, row |-> 0, col |-> 0, esc |-> 0, e |-> FALSE]

InitWith(configs) ==
    /\ pc = "main"
    /\ hd_ifwidth \in {4, 8}
    /\ \E c \in configs :
          /\ hd_lines = c[1]
          /\ hd_cols = c[2]
          /\ hd_blink = c[3][1]
          /\ hd_cursor = c[3][2]
          /\ hd_font = c[3][3]
          /\ hd_bl_on = c[3][4]
          /\ pins = PinOptions(c[4])
    /\ hd_col = 0
    /\ hd_row = 0
    /\ hd_gpio = [i \in 0..(HD_PIN_COUNT - 1) |-> -1]
    /\ esc = 0
    /\ last = NoCall
    /\ addr = 0
    /\ wire = <<>>
    /\ sent = <<>>
    /\ errs = 0
    /\ e_line \in BOOLEAN
    /\ fed = 0
    /\ \E d \in DeviceArgs :
          /\ dev_ac = d.ac
          /\ dev_n = d.n
          /\ dev_dl = d.dl
          /\ dev_hi = d.hi
          /\ dev_on = d.on
    /\ dev_wr = <<>>
    /\ dev_ph = <<>>

Init == InitWith(ConfigArgs)

\* main, from the end of option parsing to the call of hd44780_prepare
MainCheck ==
    /\ pc = "main"
    /\ IF hd_ifwidth # 4
       THEN pc' = "usage" /\ pins' = pins
       ELSE /\ pins' = DataPins(pins, hd_ifwidth)
            /\ IF (hd_lines # 1 /\ hd_lines # 2 /\ hd_lines # 4) \/ hd_cols <= 0
               THEN pc' = "usage"
               ELSE \E big \in TooManyCells(hd_lines, hd_cols) :
                       pc' = IF GeometryRejected(hd_lines, hd_cols, big)
                                \/ (hd_bl_on # 0 /\ pins[HD_PIN_BL] = -1)
                             THEN "usage" ELSE "prepare"
    /\ UNCHANGED <<config, hd_col, hd_row, hd_gpio, esc, last, addr, wire, sent,
                   errs, e_line, fed, device>>

\* the state a call starts from
Call == [col |-> hd_col, row |-> hd_row, addr |-> addr, esc |-> esc,
         wire |-> <<>>, sent |-> <<>>, at |-> <<>>,
         dev |-> [ac |-> dev_ac, n |-> dev_n, wr |-> <<>>, dl |-> dev_dl,
                  hi |-> dev_hi, on |-> dev_on, ph |-> <<>>]]

\* a variant of line_sets that gives the call up at the first set that fails
line_sets_StopOnError(w, f) ==
    LET bad  == {i \in 1..Len(w) : pins[w[i][1]] = -1 \/ Fails(f, i)}
        done == IF bad = {} THEN w
                ELSE SubSeq(w, 1, CHOOSE i \in bad : \A j \in bad : i <= j)
    IN  [wire |-> done,
         errs |-> Cardinality({i \in 1..Len(done) : Fails(f, i)}),
         stop |-> \E i \in 1..Len(w) : pins[w[i][1]] = -1]

\* What hd44780_set_pin makes of the line sets w a call asks for, when the
\* sets Fails(f, _) tells fail.  The assert: the call stops at the first set
\* of a role without a line.  The error of gpiod_line_set_value: a set that
\* fails is logged (at debug level 1) and the next one follows.  The result
\* is the sets attempted, the number of them that failed and whether the
\* call was stopped.
line_sets(w, f) ==
    LET bad  == {i \in 1..Len(w) : pins[w[i][1]] = -1}
        done == IF bad = {} THEN w
                ELSE SubSeq(w, 1, (CHOOSE i \in bad : \A j \in bad : i <= j) - 1)
    IN  [wire |-> done,
         errs |-> Cardinality({i \in 1..Len(done) : Fails(f, i)}),
         stop |-> bad # {}]

\* The level of E's line after the line sets w, e being the level before.
\* hd44780_set_pin sets lines[pins[pin]]: a set of any role that has E's
\* line number drives E's line.
ELevel(w, e) ==
    IF w = <<>> THEN e
    ELSE IF pins[w[Len(w)][1]] = pins[HD_PIN_E] THEN w[Len(w)][2]
    ELSE LET js == {j \in 1..Len(w) : pins[w[j][1]] = pins[HD_PIN_E]}
         IN  IF js = {} THEN e ELSE w[CHOOSE j \in js : \A k \in js : k <= j][2]

\* The bytes a call has logged when it stops after the line sets w: those
\* of the transmissions begun (hd44780_output and hd44780_output4 log the
\* byte before their first line set), the last of them with the strobes it
\* has completed.
sent_stopped(m, w) ==
    LET n == Cardinality({i \in 1..Len(m.at) : m.at[i] <= Len(w)})
    IN  [i \in 1..n |->
            IF i < n THEN m.sent[i]
            ELSE <<Cardinality({j \in (m.at[n] + 1)..Len(w) :
                                    w[j] = <<HD_PIN_E, FALSE>>}),
                   m.sent[n][2], m.sent[n][3]>>]

\* The state a call leaves.  A failed assert ends the program (abort); built
\* with NDEBUG the same call reads lines[-1] (corrupt).  Every transmission
\* sets RW, RS and the four data lines before its first strobe, and E in it:
\* a call that stops does so in its first transmission, before a strobe has
\* reached the controller and before the cursor is assigned, with the byte
\* of that transmission logged.
Return(call, op, ch, e, to) ==
    \E m \in {call}, f \in FailPatterns :
    \E d \in {line_sets(m.wire, f)} :
    /\ wire' = d.wire
    /\ errs' = d.errs
    /\ e_line' = ELevel(d.wire, e)
    /\ last' = [op |-> op, ch |-> ch, row |-> hd_row, col |-> hd_col,
                esc |-> esc, e |-> e]
    /\ IF d.stop
       THEN /\ pc' \in {"abort", "corrupt"}
            /\ sent' = sent_stopped(m, d.wire)
            /\ UNCHANGED <<hd_col, hd_row, addr, esc, device>>
       ELSE /\ pc' = to
            /\ hd_col' = m.col
            /\ hd_row' = m.row
            /\ addr' = m.addr
            /\ esc' = m.esc
            /\ sent' = m.sent
            /\ dev_ac' = m.dev.ac
            /\ dev_n' = m.dev.n
            /\ dev_wr' = m.dev.wr
            /\ dev_dl' = m.dev.dl
            /\ dev_hi' = m.dev.hi
            /\ dev_on' = m.dev.on
            /\ dev_ph' = m.dev.ph

\* for (i = 0; i < HD_PIN_COUNT; i++) if (pins[i] != -1) lines[pins[i]] = ...
\* The table has HD_PIN_COUNT slots.  StoreLines(t, i, n) fills the slots of
\* the roles i..n-1, OutsideTable tells whether the loop reaches outside the
\* table, and FirstOutside is the role at which it does (HD_PIN_COUNT if none).
RECURSIVE StoreLines(_, _, _)
StoreLines(t, i, n) ==
    IF i >= n THEN t
    ELSE StoreLines(IF pins[i] \in 0..(HD_PIN_COUNT - 1)
                    THEN [t EXCEPT ![pins[i]] = i] ELSE t, i + 1, n)

OutsideTable ==
    \E i \in 0..(HD_PIN_COUNT - 1) :
        pins[i] # -1 /\ pins[i] \notin 0..(HD_PIN_COUNT - 1)

FirstOutside ==
    IF OutsideTable
    THEN CHOOSE i \in 0..(HD_PIN_COUNT - 1) :
            /\ pins[i] # -1 /\ pins[i] \notin 0..(HD_PIN_COUNT - 1)
            /\ \A j \in 0..(i - 1) :
                  pins[j] = -1 \/ pins[j] \in 0..(HD_PIN_COUNT - 1)
    ELSE HD_PIN_COUNT

\* for (i = 0; i < HD_PIN_COUNT; i++) if (pins[i] != -1) set_pin(i, false)
RECURSIVE AllLow(_)
AllLow(i) ==
    IF i = HD_PIN_COUNT THEN <<>>
    ELSE (IF pins[i] = -1 THEN <<>> ELSE hd44780_set_pin(i, FALSE)) \o AllLow(i + 1)

\* the part of hd44780_prepare that drives the lines
hd44780_prepare(m) ==
    LET m1 == hd44780_command([m EXCEPT !.wire = @ \o AllLow(0)], CMD_RESET)
    IN  IF hd_bl_on # 0
        THEN [m1 EXCEPT !.wire = @ \o hd44780_set_pin(HD_PIN_BL, TRUE)]
        ELSE m1

\* the level of E's line once gpiod_line_request_output(line, progname, 0)
\* has been called for the roles 0..n-1 that have a line: low when one of
\* them has E's line number, as before otherwise
ERequested(n) ==
    IF \E j \in 0..(n - 1) : pins[j] # -1 /\ pins[j] = pins[HD_PIN_E]
    THEN FALSE ELSE e_line

\* hd44780_prepare.  Opening the chip may fail, which ends the program (err)
\* with the table untouched.  Getting the line of a role may fail, which ends
\* it with the handles of the roles before stored and a null one in the slot
\* of that role.  A handle stored outside the table is an access outside the
\* object (corrupt), made once the roles before are stored.  Requesting
\* the line of a role as an output may fail, which ends the program with
\* every handle stored and the lines of the roles before requested.  A line
\* is requested as an output at level 0: E's line is low once a role that
\* has its number is requested, and so when the lines are first set; when E
\* has no line its level stays.
Prepare ==
    /\ pc = "prepare"
    /\ \/ /\ pc' = "err"
          /\ UNCHANGED <<hd_col, hd_row, hd_gpio, esc, last, addr, wire, sent,
                         errs, e_line, device>>
       \/ /\ \E i \in 0..(FirstOutside - 1) :
                /\ pins[i] # -1
                /\ hd_gpio' = [StoreLines(hd_gpio, 0, i) EXCEPT ![pins[i]] = -1]
          /\ pc' = "err"
          /\ UNCHANGED <<hd_col, hd_row, esc, last, addr, wire, sent,
                         errs, e_line, device>>
       \/ /\ OutsideTable
          /\ pc' = "corrupt"
          /\ hd_gpio' = StoreLines(hd_gpio, 0, FirstOutside)
          /\ UNCHANGED <<hd_col, hd_row, esc, last, addr, wire, sent,
                         errs, e_line, device>>
       \/ /\ ~OutsideTable
          /\ \E i \in 0..(HD_PIN_COUNT - 1) :
                /\ pins[i] # -1
                /\ e_line' = ERequested(i)
          /\ pc' = "err"
          /\ hd_gpio' = StoreLines(hd_gpio, 0, HD_PIN_COUNT)
          /\ UNCHANGED <<hd_col, hd_row, esc, last, addr, wire, sent,
                         errs, device>>
       \/ /\ ~OutsideTable
          /\ hd_gpio' = StoreLines(hd_gpio, 0, HD_PIN_COUNT)
          /\ Return(hd44780_prepare(Call), "prepare", 0, ERequested(HD_PIN_COUNT), "input")
    /\ UNCHANGED <<config, pins, fed>>

\* do_char(state, ch) in main's input loop
Feed(ch) ==
    /\ pc = "input"
    /\ Return(do_char(Call, ch), "do_char", ch, e_line, "input")
    /\ UNCHANGED <<config, pins, hd_gpio>>

\* one turn of main's input loop, on any byte
DoChar ==
    /\ \E ch \in InputChars : Feed(ch)
    /\ UNCHANGED fed

Next == MainCheck \/ Prepare \/ DoChar

Spec == Init /\ [][Next]_vars

-----------------------------------------------------------------------------
(* The run of the program on the arguments "AB\nCD", on a 2 x 16 display.  *)

Script == <<65, 66, 10, 67, 68>>

InitScript == InitWith({<<2, 16, f, NoPinOption>> : f \in FlagArgs})

\* one turn of main's input loop, on the next byte of Script
DoScript ==
    /\ fed < Len(Script)
    /\ Feed(Script[fed + 1])
    /\ fed' = fed + 1

NextScript == MainCheck \/ Prepare \/ DoScript

SpecScript == InitScript /\ [][NextScript]_vars

-----------------------------------------------------------------------------
(* The transmitter on every byte: hd44780_output and hd44780_output4 are   *)
(* applied, once the display is started, to either register type and any   *)
(* byte.                                                                   *)

InitBus == InitWith({<<2, 16, <<0, 0, 0, 1>>, NoPinOption>>})

Output ==
    /\ pc = "input"
    /\ \E t \in {HD_COMMAND, HD_DATA}, b \in 0..255 :
          Return(hd44780_output(Call, t, b), "output", b, e_line, "sent")
    /\ UNCHANGED <<config, pins, hd_gpio, fed>>

Output4 ==
    /\ pc = "input"
    /\ \E t \in {HD_COMMAND, HD_DATA}, b \in 0..255 :
          Return(hd44780_output4(Call, t, b), "output4", b, e_line, "sent")
    /\ UNCHANGED <<config, pins, hd_gpio, fed>>

NextBus == MainCheck \/ Prepare \/ Output \/ Output4

SpecBus == InitBus /\ [][NextBus]_vars

-----------------------------------------------------------------------------
(* Runs on a geometry main accepts because the product of lines and        *)
(* columns overflows: 2 lines of 2^30 columns.  A row cannot be filled in  *)
(* a run of the model, so the input is bytes that keep the cursor on the   *)
(* first MaxWideCol columns.                                               *)

MaxWideCol == 41

InitWide == InitWith({<<2, 1073741824, <<0, 0, 0, 1>>, NoPinOption>>})

DoCharWide ==
    /\ hd_col < MaxWideCol
    /\ \E ch \in {8, 13, 65} : Feed(ch)
    /\ UNCHANGED fed

NextWide == MainCheck \/ Prepare \/ DoCharWide

SpecWide == InitWide /\ [][NextWide]_vars

-----------------------------------------------------------------------------
(* The geometry check and the address computation on the whole range of    *)
(* int.  The options -h and -w are read with strtol into an int, so        *)
(* hd_lines and hd_cols can hold any int.  A geometry of 2^30 columns cannot be typed full in a *)
(* run of the model, so the cursor hd44780_calc_addr is applied to is      *)
(* drawn from the positions of the accepted geometry.                      *)

WideLines == {INT_MIN, -1, 0, 1, 2, 3, 4, 5, 8, INT_MAX}
WideCols ==
    {INT_MIN, -1, 0, 1, 16, 20, 21, 40, 41, 80, 81, 536870912, 1073741824,
     1073741844, 1610612736, INT_MAX}

InitGeom ==
    InitWith({<<l, c, <<0, 0, 0, 1>>, NoPinOption>> : l \in WideLines, c \in WideCols})

\* the columns the address is computed at: 0 <= c <= hd_cols
ProbeCols == {c \in {0, 1, 15, 19, 20, 39, 40, 79, 80, 255, 256} : c <= hd_cols}

\* val = hd44780_calc_addr(state), at a cursor of the accepted geometry
CalcAddr ==
    /\ pc = "prepare"
    /\ \E r \in 0..(hd_lines - 1), c \in ProbeCols :
          /\ hd_row' = r
          /\ hd_col' = c
          /\ addr' = hd44780_calc_addr(r, c)
          /\ last' = [op |-> "calc_addr", ch |-> 0, row |-> r, col |-> c,
                      esc |-> esc, e |-> e_line]
    /\ pc' = "addr"
    /\ UNCHANGED <<config, pins, hd_gpio, esc, wire, sent, errs, e_line, fed, device>>

NextGeom == MainCheck \/ CalcAddr

SpecGeom == InitGeom /\ [][NextGeom]_vars

-----------------------------------------------------------------------------
(* Properties.  `last' holds the call that led to the current state and    *)
(* the cursor and escape flag it started from, so a statement about what a *)
(* call does is a statement about the state it leaves.                     *)

\* do_char(ch) was served outside an escape sequence / as its second byte
Served(ch) == last.op = "do_char" /\ last.esc = 0 /\ last.ch = ch
EscServed(ch) == last.op = "do_char" /\ last.esc # 0 /\ last.ch = ch

Min(a, b) == IF a < b THEN a ELSE b

\* the DDRAM address of the cell at (row, col), as the display is wired
CellAddr(row, col) ==
    col + (IF row \in {1, 3} THEN 64 ELSE 0) + (IF row \in {2, 3} THEN hd_cols ELSE 0)

\* n data writes of a space, as transmissions and as DDRAM updates from address a
Spaces(n) == [i \in 1..n |-> <<2, HD_DATA, 32>>]
SpaceCells(a, n) == [i \in 1..n |-> <<a + (i - 1), 32>>]

\* the line sets of one byte on the 4-bit bus: RW low, RS, the upper nibble
\* on D0..D3, a pulse on E, the lower nibble on D0..D3, a pulse on E
NibbleSets(x) == [i \in 1..4 |-> <<i - 1, (x \div (2 ^ (i - 1))) % 2 = 1>>]
Pulse == << <<10, TRUE>>, <<10, FALSE>> >>
ByteSets(rs, b) ==
    << <<9, FALSE>>, <<8, rs>> >> \o NibbleSets(b \div 16) \o Pulse
        \o NibbleSets(b % 16) \o Pulse

\* C1: once the display is started, whatever characters are fed, the cursor
\* stays on the display: 0 <= row < lines and 0 <= column <= columns.
C1_CursorInRange ==
    pc = "input" =>
        /\ 0 <= hd_row /\ hd_row < hd_lines
        /\ 0 <= hd_col /\ hd_col <= hd_cols

\* the cursor pinned at the end of the last of four rows
C1_Witness ==
    /\ pc = "input" /\ last.op = "do_char"
    /\ hd_lines = 4 /\ hd_row = hd_lines - 1 /\ hd_col = hd_cols

\* C2: CLEAR (FF) and HOME (ESC H) leave the cursor at (0, 0) from any
\* position; HOME transmits the home command 0x02 and nothing else: no
\* clear, no data write.
C2_ClearHome ==
    /\ Served(12) => hd_row = 0 /\ hd_col = 0
    /\ EscServed(72) =>
          /\ hd_row = 0 /\ hd_col = 0
          /\ sent = << <<2, HD_COMMAND, 2>> >>
          /\ wire = ByteSets(FALSE, 2)

\* HOME from a cursor off the first row and off the first column
C2_Witness ==
    /\ EscServed(72) /\ last.row > 0 /\ last.col > 0
    /\ hd_row = 0 /\ hd_col = 0 /\ Len(sent) = 1

\* C3: NL from (r, c) writes columns - c spaces to the rest of row r; below
\* the last row it then moves to (r + 1, 0) and sets the address to the start
\* of row r + 1; on the last row it sends no address and stays at
\* (lines - 1, columns).
C3_Newline ==
    Served(10) =>
        /\ dev_wr = SpaceCells(CellAddr(last.row, last.col), hd_cols - last.col)
        /\ IF last.row < hd_lines - 1
           THEN /\ hd_row = last.row + 1 /\ hd_col = 0
                /\ sent = Append(Spaces(hd_cols - last.col),
                                 <<2, HD_COMMAND, 128 + CellAddr(last.row + 1, 0)>>)
           ELSE /\ hd_row = hd_lines - 1 /\ hd_col = hd_cols
                /\ sent = Spaces(hd_cols - last.col)

\* NL in the middle of a row that is not the last
C3_Witness ==
    /\ Served(10) /\ last.row = 1 /\ hd_lines = 4
    /\ 0 < last.col /\ last.col < hd_cols
    /\ hd_row = 2 /\ Len(sent) = (hd_cols - last.col) + 1

\* C4: a printable character at column = columns does nothing: no line is
\* set, so nothing reaches the display, and the cursor stays; left of that
\* it sends one DATA byte, the character, and moves one column right on the
\* same row.
C4_Putc ==
    (last.op = "do_char" /\ last.esc = 0 /\ isascii(last.ch) /\ isprint(last.ch)) =>
        IF last.col = hd_cols
        THEN /\ wire = <<>> /\ sent = <<>>
             /\ hd_row = last.row /\ hd_col = last.col
        ELSE /\ sent = << <<2, HD_DATA, last.ch>> >>
             /\ wire = ByteSets(TRUE, last.ch)
             /\ hd_row = last.row /\ hd_col = last.col + 1

\* a character dropped at the right edge
C4_Witness ==
    /\ Served(65) /\ last.col = hd_cols
    /\ hd_col = hd_cols /\ wire = <<>>

\* C5: TAB from column c stops at min(columns, c + (8 - c mod 8)) on the
\* same row, and what it sends is that many spaces as data, no command.
C5_Tab ==
    Served(9) =>
        LET stop == Min(hd_cols, last.col + (8 - (last.col % 8)))
        IN  /\ hd_col = stop /\ hd_row = last.row
            /\ sent = Spaces(stop - last.col)

\* TAB from inside a row, cut short by a right edge that is no tab stop
C5_Witness ==
    /\ Served(9) /\ 0 < last.col /\ last.col < hd_cols
    /\ hd_col = hd_cols /\ hd_cols % 8 # 0

\* C6: BS from column c > 0, the pinned position c = columns included, ends
\* at column c - 1 of the same row, and the one cell it changes is
\* (row, c - 1), which becomes a space.
C6_Backspace ==
    (Served(8) /\ last.col > 0) =>
        /\ hd_col = last.col - 1 /\ hd_row = last.row
        /\ dev_wr = << <<CellAddr(last.row, last.col - 1), 32>> >>
        /\ dev_ac = CellAddr(last.row, last.col - 1)

\* BS from the pinned position at the end of a row
C6_Witness ==
    /\ Served(8) /\ last.col = hd_cols /\ last.row > 0
    /\ hd_col = hd_cols - 1 /\ Len(dev_wr) = 1

\* C7: BS at column 0 sets the lines exactly as FLASH (BEL) does: display
\* off, display on, twice; it sends no cursor move and no data, and the
\* cursor stays at (row, 0).
C7_BackspaceAtHome ==
    (Served(8) /\ last.col = 0) =>
        LET on == 12 + (IF hd_cursor # 0 THEN 2 ELSE 0) + (IF hd_blink # 0 THEN 1 ELSE 0)
        IN  /\ wire = hd44780_command(Call, CMD_FLASH).wire
            /\ wire = ByteSets(FALSE, 8) \o ByteSets(FALSE, on)
                        \o ByteSets(FALSE, 8) \o ByteSets(FALSE, on)
            /\ \A i \in 1..Len(sent) :
                  sent[i][2] = HD_COMMAND /\ sent[i][3] \in {8, on}
            /\ hd_col = 0 /\ hd_row = last.row

\* BS at the start of a row below the first, the cursor shown
C7_Witness ==
    /\ Served(8) /\ last.col = 0 /\ last.row > 0 /\ hd_cursor # 0
    /\ Len(wire) = 56 /\ hd_col = 0

\* C8: on every accepted geometry, at every cursor (row, c) of it, the
\* address computed is c on row 0, 0x40 + c on row 1, columns + c on row 2
\* and 0x40 + columns + c on row 3, and fits the 8-bit result.  (Stated with
\* the column and the row offset on the left, so that the comparison stays in
\* range for columns near INT_MAX.)  Fails under SpecGeom: with -h 4
\* -w 1073741824 the address of (2, 0) is 0.
C8_CalcAddr ==
    pc = "addr" =>
        addr - last.col - (IF last.row \in {1, 3} THEN 64 ELSE 0)
            = (IF last.row \in {2, 3} THEN hd_cols ELSE 0)

\* C9: the geometry check lets main go on to hd44780_prepare exactly when
\* lines is 1, 2 or 4, columns > 0 and lines x columns <= 80 (as numbers:
\* columns <= 80 / lines); everything else ends in usage().  Fails under
\* SpecGeom: -h 4 -w 1073741824 is accepted.
C9_GeometryCheck ==
    (pc # "main" /\ hd_ifwidth = 4) =>
        ((pc # "usage") <=>
            (hd_lines \in {1, 2, 4} /\ hd_cols > 0 /\ hd_cols <= 80 \div hd_lines))

\* C10: the byte after ESC: 'R' does RESET and nothing else, 'H' does HOME
\* and nothing else, any other byte does nothing at all; in each case the
\* escape is over, and the next byte is read as an ordinary one.
C10_Escape ==
    (last.op = "do_char" /\ last.esc # 0) =>
        /\ esc = 0
        /\ CASE last.ch = 82 ->
                  LET r == hd44780_command(Call, CMD_RESET)
                  IN  /\ wire = r.wire /\ sent = r.sent
                      /\ hd_row = 0 /\ hd_col = 0
             [] last.ch = 72 ->
                  LET h == hd44780_command(Call, CMD_HOME)
                  IN  /\ wire = h.wire /\ sent = h.sent
                      /\ hd_row = 0 /\ hd_col = 0
             [] OTHER ->
                  /\ wire = <<>> /\ sent = <<>>
                  /\ hd_row = last.row /\ hd_col = last.col
        /\ \A ch \in InputChars :
              LET n == do_char(Call, ch)
              IN  /\ n.esc = (IF ch = 27 THEN 1 ELSE 0)
                  /\ (isascii(ch) /\ isprint(ch) /\ hd_col < hd_cols)
                        => n.sent = << <<2, HD_DATA, ch>> >>

\* a second ESC after ESC, discarded, with the cursor off the origin
C10_Witness ==
    /\ EscServed(27) /\ esc = 0 /\ wire = <<>>
    /\ hd_col > 0 /\ hd_row > 0

-----------------------------------------------------------------------------
\* the pin roles the driver drives: the four data lines, RS, RW, E, and BL
\* when the backlight is enabled
DrivenRoles ==
    (HD_PIN_DAT0..(HD_PIN_DAT0 + 3)) \cup {HD_PIN_RS, HD_PIN_RW, HD_PIN_E}
        \cup (IF hd_bl_on # 0 THEN {HD_PIN_BL} ELSE {})

\* C11: a configuration in which a driven pin role has no line, or a negative
\* line number, is rejected before the chip is opened: past main's checks
\* every driven role has a line number >= 0, and the assertion in
\* hd44780_set_pin never fails.
C11_PinsChecked ==
    (pc \notin {"main", "usage"}) =>
        /\ \A role \in DrivenRoles : pins[role] >= 0
        /\ pc # "abort"

\* C12: an error of a line set is only logged.  Whatever sets fail, a call
\* of do_char (and the start of the display) attempts the line sets of the
\* run in which none fails, in the same order, none left out and none
\* repeated, ends on the same cursor, and the program goes on reading input.
C12_LineSetErrors ==
    /\ last.op = "do_char" =>
          LET n == do_char([Call EXCEPT !.col = last.col, !.row = last.row,
                                        !.esc = last.esc], last.ch)
          IN  /\ pc = "input"
              /\ wire = n.wire
              /\ hd_col = n.col /\ hd_row = n.row
    /\ (last.op = "prepare" /\ pc = "input") =>
          /\ wire = hd44780_prepare(Call).wire
          /\ hd_col = 0 /\ hd_row = 0

\* a newline whose line sets failed in part
C12_Witness ==
    /\ Served(10) /\ errs > 0 /\ pc = "input"
    /\ Len(sent) > 1 /\ hd_col = 0

\* A 4-bit receiver on the lines: at each rise of E (a set of line role 10
\* to high) it samples RS (role 8) and the data lines (roles 0..3), each at
\* the level of the last set before the rise (low when never set).
LevelAt(w, p, j) ==
    LET js == {i \in 1..(j - 1) : w[i][1] = p}
    IN  IF js = {} THEN FALSE
        ELSE w[CHOOSE i \in js : \A k \in js : k <= i][2]

NibbleAt(w, j) ==
    (IF LevelAt(w, 0, j) THEN 1 ELSE 0) + (IF LevelAt(w, 1, j) THEN 2 ELSE 0)
        + (IF LevelAt(w, 2, j) THEN 4 ELSE 0) + (IF LevelAt(w, 3, j) THEN 8 ELSE 0)

RECURSIVE Sampled(_, _)
Sampled(w, j) ==
    IF j > Len(w) THEN <<>>
    ELSE (IF w[j] = <<10, TRUE>>
          THEN << <<LevelAt(w, 8, j), NibbleAt(w, j)>> >> ELSE <<>>)
            \o Sampled(w, j + 1)

\* C13: hd44780_output(type, byte) sets, in this order, RW low, RS by the
\* register type, the data lines to bits 4..7, E high and low, the data lines
\* to bits 0..3, E high and low; a 4-bit receiver sampling at each rise of E
\* gets the register type and the byte back, upper nibble first.  Checked
\* for both register types and every byte 0..255.
C13_Output ==
    (last.op = "output" /\ pc = "sent") =>
        \E t \in {0, 1} :
            /\ sent = << <<2, t, last.ch>> >>
            /\ wire = ByteSets(t = 1, last.ch)
            /\ LET s == Sampled(wire, 1)
               IN  /\ Len(s) = 2
                   /\ s[1][1] = (t = 1) /\ s[2][1] = (t = 1)
                   /\ 16 * s[1][2] + s[2][2] = last.ch

\* the data byte 0xA5 has been put out
C13_Witness ==
    /\ last.op = "output" /\ pc = "sent"
    /\ sent = << <<2, HD_DATA, 165>> >>
    /\ Len(wire) = 14

\* the function-set byte of the configuration on the 4-bit interface, and
\* the display-control byte that switches the display on
FunctionSetByte ==
    32 + (IF hd_lines # 1 THEN 8 ELSE 0) + (IF hd_font # 0 THEN 4 ELSE 0)
DisplayOnByte ==
    12 + (IF hd_cursor # 0 THEN 2 ELSE 0) + (IF hd_blink # 0 THEN 1 ELSE 0)

\* C14: RESET (at the start of the display and on ESC R) sends, all as
\* commands and in this order: three upper-nibble-only writes of 0x30, one
\* upper-nibble-only write of the function-set byte, the whole function-set
\* byte, display off (0x08), display on with the cursor and blink bits,
\* entry mode 0x06 and last the clear command 0x01; the cursor is then (0,0).
C14_Reset ==
    ((last.op = "prepare" \/ EscServed(82)) /\ pc = "input") =>
        /\ sent = << <<1, 0, 48>>, <<1, 0, 48>>, <<1, 0, 48>>,
                     <<1, 0, FunctionSetByte>>, <<2, 0, FunctionSetByte>>,
                     <<2, 0, 8>>, <<2, 0, DisplayOnByte>>, <<2, 0, 6>>,
                     <<2, 0, 1>> >>
        /\ hd_col = 0 /\ hd_row = 0

\* ESC R served away from the home position, with the cursor configured
C14_Witness ==
    /\ EscServed(82) /\ pc = "input"
    /\ last.col > 0 /\ hd_cursor # 0
    /\ Len(sent) = 9

\* the display-control commands among the bytes of the last call
DisplayControls == {i \in 1..Len(sent) : sent[i][2] = 0 /\ sent[i][3] \in 8..15}

\* C15: FLASH (the BEL character) sends four display-control commands, off,
\* on, off, on, each "on" with the configured cursor and blink bits, and
\* nothing else; row and column stay.  Every call after the start that
\* sends a display-control command sends last one with the display-on bit,
\* and the start sends one: the display is left on after every call.
C15_Flash ==
    pc = "input" =>
        /\ Served(7) =>
              /\ sent = << <<2, 0, 8>>, <<2, 0, DisplayOnByte>>,
                           <<2, 0, 8>>, <<2, 0, DisplayOnByte>> >>
              /\ hd_col = last.col /\ hd_row = last.row
        /\ last.op = "prepare" => DisplayControls # {}
        /\ DisplayControls # {} =>
              sent[CHOOSE i \in DisplayControls :
                       \A j \in DisplayControls : j <= i][3] >= 12

\* BEL served away from the home position, with blink configured
C15_Witness ==
    /\ Served(7) /\ pc = "input"
    /\ last.col > 0 /\ hd_blink # 0
    /\ Len(sent) = 4

\* C16: on a 2x16 display the start leaves the cursor at (0,0), and the
\* input "AB\nCD" then gives, byte by byte: the data write 'A' (column 1),
\* the data write 'B' (column 2), 14 data writes of a space followed by the
\* set-address command 0xC0 (row 1, column 0), the data write 'C' (column
\* 1), the data write 'D' (column 2); the cursor ends at (1,2).
C16_Script ==
    (pc = "input" /\ hd_lines = 2 /\ hd_cols = 16) =>
        /\ fed = 0 => (hd_row = 0 /\ hd_col = 0)
        /\ fed = 1 => (sent = << <<2, 1, 65>> >> /\ hd_row = 0 /\ hd_col = 1)
        /\ fed = 2 => (sent = << <<2, 1, 66>> >> /\ hd_row = 0 /\ hd_col = 2)
        /\ fed = 3 => /\ sent = Spaces(14) \o << <<2, 0, 192>> >>
                      /\ hd_row = 1 /\ hd_col = 0
        /\ fed = 4 => (sent = << <<2, 1, 67>> >> /\ hd_row = 1 /\ hd_col = 1)
        /\ fed = 5 => (sent = << <<2, 1, 68>> >> /\ hd_row = 1 /\ hd_col = 2)

\* the whole input has been served
C16_Witness ==
    /\ pc = "input" /\ hd_lines = 2 /\ hd_cols = 16
    /\ fed = 5 /\ last.ch = 68 /\ last.row = 1 /\ last.col = 1

\* C17: the cursor of the program is an image of the address counter of the
\* controller: after the start and after every character, whenever the
\* column is on the display (column < columns), the address counter is
\* hd44780_calc_addr(row, column); a character put on a column of the
\* display is written to the DDRAM address of the cursor it was put at;
\* the operand of a set-address command is below 0x80.
C17_CursorImage ==
    pc = "input" =>
        /\ hd_col < hd_cols => dev_ac = hd44780_calc_addr(hd_row, hd_col)
        /\ (Served(65) /\ last.col < hd_cols) =>
              dev_wr = << <<hd44780_calc_addr(last.row, last.col), 65>> >>
        /\ addr < 128

\* C18: RESET brings the controller's interface in step from any state (8-bit,
\* 4-bit waiting for an upper nibble, 4-bit waiting for a lower nibble):
\* after the three single-nibble writes the controller is in 8-bit mode,
\* after the mode-switch nibble in 4-bit mode waiting for an upper nibble,
\* and every later transmission is two strobes, after which the controller
\* again waits for an upper nibble.  Single-nibble transmissions occur only
\* as the first four of RESET.  dev_ph holds, for each strobe of the last
\* call, the interface width and the number of nibbles pending after it.
C18_Resync ==
    pc = "input" =>
        /\ IF last.op = "prepare" \/ EscServed(82)
           THEN /\ \A i \in 1..Len(sent) : sent[i][1] = (IF i <= 4 THEN 1 ELSE 2)
                /\ Len(sent) > 4 /\ Len(dev_ph) = 4 + 2 * (Len(sent) - 4)
                /\ dev_ph[3] = <<8, 0>>
                /\ dev_ph[4] = <<4, 0>>
                /\ \A i \in 5..Len(dev_ph) : dev_ph[i] = <<4, (i - 4) % 2>>
           ELSE /\ \A i \in 1..Len(sent) : sent[i][1] = 2
                /\ Len(dev_ph) = 2 * Len(sent)
                /\ \A i \in 1..Len(dev_ph) : dev_ph[i] = <<4, i % 2>>
        /\ dev_dl = 4 /\ dev_hi = <<>>

\* the display was started with the controller in 4-bit mode waiting for an
\* upper nibble: the first wake-up nibble is left pending, the third one
\* finds the controller in 8-bit mode
C18_Witness ==
    /\ last.op = "prepare" /\ pc = "input"
    /\ dev_ph[1] = <<4, 1>> /\ dev_ph[3] = <<8, 0>>
    /\ dev_dl = 4

\* the strobes of the last call, by the bytes it logged
Strobes == Len(sent) + Cardinality({i \in 1..Len(sent) : sent[i][1] = 2})

\* the line sets of the last call that drive E's line high
ERises == {i \in 1..Len(wire) : pins[wire[i][1]] = pins[HD_PIN_E] /\ wire[i][2]}

\* C19: RS, RW and the data lines change only while E is low, and E is
\* raised once and lowered once per strobe: E's line is low when a call
\* starts, each set that drives it high is the strobe's set of E and is
\* followed at once by the strobe's set of E to low, there are as many
\* such sets as strobes, and E's line is low when the call ends.
C19_BusStable ==
    pc = "input" =>
        /\ last.e = FALSE
        /\ \A i \in ERises :
              /\ wire[i][1] = HD_PIN_E
              /\ i < Len(wire) /\ wire[i + 1] = <<HD_PIN_E, FALSE>>
        /\ Cardinality(ERises) = Strobes
        /\ e_line = FALSE

\* C20: in every accepted configuration the table of line handles (one slot
\* per pin role, HD_PIN_COUNT slots) is only accessed inside the table, and
\* each assigned role has a slot of its own: past main's checks the index
\* pins[role] of every assigned role is in 0..HD_PIN_COUNT-1, no two
\* assigned roles have the same index, and once the handles are stored the
\* slot of each assigned role holds the handle of that role.
C20_LineTable ==
    (pc \notin {"main", "usage"}) =>
        /\ pc # "corrupt"
        /\ \A i \in 0..(HD_PIN_COUNT - 1) :
              pins[i] # -1 =>
                 /\ pins[i] \in 0..(HD_PIN_COUNT - 1)
                 /\ \A j \in 0..(HD_PIN_COUNT - 1) :
                       (j # i /\ pins[j] # -1) => pins[j] # pins[i]
                 /\ pc = "input" => hd_gpio[pins[i]] = i

====
